---- MODULE Spec2Model ----
(***************************************************************************)
(* Room-based one-to-one chat relay                                        *)
(* (src/notes/fast_api_one_to_one_chat_full_backend.py).                   *)
(*                                                                         *)
(* Execution model.  The websocket handlers are coroutines of one event    *)
(* loop: the code between two `await`s runs without interruption, and      *)
(* every `await` is a point where another handler may run.  An action of   *)
(* this module is therefore one stretch of handler code from the point     *)
(* where an `await` resumes to the next `await` (or to the handler's end). *)
(* `await ws.send_text(m)` hands m to the channel and then suspends.       *)
(* The REST endpoints contain no `await`; each one is a single action.     *)
(*                                                                         *)
(* A WebSocket object is identified with the session that owns it.         *)
(*                                                                         *)
(* The module also holds the create_url endpoint of the URL shortener      *)
(* (src/07.url-shortner/main.py), as a specification of its own, SpecUrl.  *)
(***************************************************************************)
EXTENDS Integers, Sequences, FiniteSets, TLC

\* ------------------------------------------------------------------
\* Bounds
\*   NumSessions  websocket connections opened over a run (each handle
\*                joins once); 3 are needed for a rejected join
\*   NumCodes     distinct room codes that requests and uuid4 produce
\*   MaxMsgs      text frames received by the server over a run
\*   NumRequests  create_url requests over a run of the URL shortener
\*   NumShortCodes  values generate_short_code can return
\* ------------------------------------------------------------------
NumSessions == 3
NumCodes == 2
MaxMsgs == 2
NumRequests == 3
NumShortCodes == 2

Sessions == 1..NumSessions
Requests == 1..NumRequests
ShortCodes == 1..NumShortCodes
Codes == 1..NumCodes

\* The text frame connect() sends to a rejected session ("Room is full").
\* Chat payloads are pairs <<sender, n>>, so this one differs from all.
RoomFullNotice == <<0, 0>>

\* What `await connection.send_text(..)` can do when the peer's channel is
\* no longer open; it depends on the server build:
\*   "lost"       the frame is dropped, no exception
\*   "disconnect" WebSocketDisconnect is raised in the sender's handler
\*   "error"      another exception (RuntimeError) is raised there
SendFailures == {"lost", "disconnect", "error"}

VARIABLES
    rooms,          \* dict room_code -> list of WebSocket
    chat_history,   \* dict room_code -> list of str
    pc,             \* position of each session's websocket_endpoint
    code,           \* room_code path parameter of each session
    chan,           \* state of each session's channel: "open" / "closed"
    inbox,          \* text frames the server sent to each session's client
    it,             \* the list iterator of a session suspended in broadcast
    nmsgs,          \* number of messages received so far (bounded)
    leaves,         \* number of manager.disconnect calls per session
    used,           \* number of distinct room codes seen so far
    \* 07.url-shortner
    urls,           \* committed rows of table "urls", in commit order
    req_pc,         \* position of each create_url request
    req_code        \* local `code` of each create_url request

\* state of the chat relay and of the URL shortener
chatvars == <<rooms, chat_history, pc, code, chan, inbox, it, nmsgs, leaves,
              used>>
urlvars == <<urls, req_pc, req_code>>

vars == <<rooms, chat_history, pc, code, chan, inbox, it, nmsgs, leaves, used,
          urls, req_pc, req_code>>

\* idx, live, snap: the iterator; msg: the message being broadcast; at: the
\* members list as it was when msg was appended to the history (a record
\* kept for stating properties, the code has no such value)
NoIter == [idx |-> 0, live |-> TRUE, snap |-> <<>>, msg |-> <<0, 0>>,
           at |-> <<>>]

\* ------------------------------------------------------------------
\* Helpers on Python lists and dicts
\* ------------------------------------------------------------------
Range(seq) == {seq[i] : i \in 1..Len(seq)}

\* `x in lst`
Contains(seq, x) == \E i \in 1..Len(seq) : seq[i] = x

\* position of the first occurrence of x, 0 if none
IndexOf(seq, x) ==
    IF Contains(seq, x)
    THEN CHOOSE i \in 1..Len(seq) : seq[i] = x /\ \A j \in 1..(i-1) : seq[j] # x
    ELSE 0

\* list.remove(x): removes the first occurrence
ListRemove(seq, x) ==
    LET k == IndexOf(seq, x)
    IN IF k = 0 THEN seq
       ELSE [i \in 1..(Len(seq)-1) |-> IF i < k THEN seq[i] ELSE seq[i+1]]

\* del d[k]
DictDel(d, k) == [x \in (DOMAIN d) \ {k} |-> d[x]]

\* d[k] = v
DictSet(d, k, v) == [x \in (DOMAIN d) \cup {k} |-> IF x = k THEN v ELSE d[x]]

\* ------------------------------------------------------------------
\* ConnectionManager.connect, lines 52-62 (after `await accept()`)
\* ------------------------------------------------------------------
\* lines 52-54: create the room and its history when the code is unseen
connect_ensure(d, room_code) ==
    IF room_code \notin DOMAIN d THEN DictSet(d, room_code, <<>>) ELSE d

\* slip: `>` for `>=`
connect_full_offbyone(r, room_code) ==
    Len(connect_ensure(r, room_code)[room_code]) > 2

\* slip: len(rooms) for len(rooms[room_code])
connect_full_rooms(r, room_code) ==
    Cardinality(DOMAIN connect_ensure(r, room_code)) >= 2

\* line 56: the capacity check
connect_full(r, room_code) == Len(connect_ensure(r, room_code)[room_code]) >= 2

\* slip: the `return False` of line 59 is missing
connect_rooms_noreturn(r, websocket, room_code) ==
    LET r1 == connect_ensure(r, room_code)
    IN [r1 EXCEPT ![room_code] = Append(r1[room_code], websocket)]

\* slip: insert(0, websocket) for append(websocket)
connect_rooms_prepend(r, websocket, room_code) ==
    LET r1 == connect_ensure(r, room_code)
    IN IF connect_full(r, room_code) THEN r1
       ELSE [r1 EXCEPT ![room_code] = <<websocket>> \o r1[room_code]]

\* lines 52-62: rooms after connect
connect_rooms(r, websocket, room_code) ==
    LET r1 == connect_ensure(r, room_code)
    IN IF connect_full(r, room_code) THEN r1
       ELSE [r1 EXCEPT ![room_code] = Append(r1[room_code], websocket)]

\* slip: line 54 is missing
connect_history_skip(r, h, room_code) == h

\* lines 52-54: chat_history after connect
connect_history(r, h, room_code) ==
    IF room_code \notin DOMAIN r THEN DictSet(h, room_code, <<>>) ELSE h

\* ------------------------------------------------------------------
\* ConnectionManager.disconnect, lines 64-70
\* ------------------------------------------------------------------
\* line 65
disconnect_member(r, websocket, room_code) ==
    room_code \in DOMAIN r /\ Contains(r[room_code], websocket)

\* line 68, evaluated after the remove of line 66
disconnect_empties(r, websocket, room_code) ==
    /\ disconnect_member(r, websocket, room_code)
    /\ Len(ListRemove(r[room_code], websocket)) = 0

\* slip: the membership test of line 65 is missing and the handle is
\* removed by position
disconnect_rooms_pop(r, websocket, room_code) ==
    IF room_code \in DOMAIN r /\ Len(r[room_code]) > 0
    THEN LET m == IF Contains(r[room_code], websocket)
                  THEN ListRemove(r[room_code], websocket)
                  ELSE Tail(r[room_code])
         IN IF Len(m) = 0 THEN DictDel(r, room_code)
            ELSE [r EXCEPT ![room_code] = m]
    ELSE r

\* slip: lines 68-69 are missing
disconnect_rooms_keep(r, websocket, room_code) ==
    IF disconnect_member(r, websocket, room_code)
    THEN [r EXCEPT ![room_code] = ListRemove(r[room_code], websocket)]
    ELSE r

\* lines 65-69: rooms after disconnect
disconnect_rooms(r, websocket, room_code) ==
    IF disconnect_member(r, websocket, room_code)
    THEN IF disconnect_empties(r, websocket, room_code)
         THEN DictDel(r, room_code)
         ELSE [r EXCEPT ![room_code] = ListRemove(r[room_code], websocket)]
    ELSE r

\* slip: line 70 is missing
disconnect_history_keep(r, h, websocket, room_code) == h

\* lines 65-70: chat_history after disconnect
disconnect_history(r, h, websocket, room_code) ==
    IF disconnect_empties(r, websocket, room_code)
    THEN DictDel(h, room_code)
    ELSE h

\* ------------------------------------------------------------------
\* websocket_endpoint, line 124: chat_history[room_code].append(data)
\* ------------------------------------------------------------------
\* slip: the append of line 124 is missing
record_skip(h, room_code, data) == h

record(h, room_code, data) == [h EXCEPT ![room_code] = Append(@, data)]

\* ------------------------------------------------------------------
\* REST endpoints
\* ------------------------------------------------------------------
\* list_rooms, lines 97-99
list_rooms == DOMAIN rooms

\* get_chat_history, lines 102-106; NotFound stands for the 404
NotFound == <<"404">>
get_chat_history(room_code) ==
    IF room_code \notin DOMAIN chat_history THEN NotFound
    ELSE chat_history[room_code]

\* ------------------------------------------------------------------
\* Iterators of suspended broadcasts.  `for connection in rooms[code]`
\* iterates the list object that was in the dict when the loop started.
\* While that object is still the dict's value the iterator sees every
\* later append/remove (live); once the dict entry is deleted or replaced
\* the object is no longer changed by anyone and the iterator keeps
\* walking its last content (snap).
\* ------------------------------------------------------------------
Detach(itf, room_code, content, pcf) ==
    [t \in Sessions |->
        IF pcf[t] = "broadcasting" /\ code[t] = room_code /\ itf[t].live
        THEN [itf[t] EXCEPT !.live = FALSE, !.snap = content]
        ELSE itf[t]]

\* slip: the test of line 78 is missing
NextIdx_noskip(lst, i, sender) == IF i <= Len(lst) THEN i ELSE 0

\* broadcast, lines 77-78: first position >= i whose element is not the
\* sender; 0 when the iterator is exhausted
NextIdx(lst, i, sender) ==
    IF \E j \in i..Len(lst) : lst[j] # sender
    THEN CHOOSE j \in i..Len(lst) :
            lst[j] # sender /\ \A k \in i..(j-1) : lst[k] = sender
    ELSE 0

Init ==
    /\ rooms = << >>
    /\ chat_history = << >>
    /\ pc = [s \in Sessions |-> "idle"]
    /\ code = [s \in Sessions |-> 0]
    /\ chan = [s \in Sessions |-> "open"]
    /\ inbox = [s \in Sessions |-> <<>>]
    /\ it = [s \in Sessions |-> NoIter]
    /\ urls = <<>>
    /\ req_pc = [r \in Requests |-> "query"]
    /\ req_code = [r \in Requests |-> 0]
    /\ nmsgs = 0
    /\ leaves = [s \in Sessions |-> 0]
    /\ used = 0

\* Room codes are opaque strings: the first code ever seen is called 1,
\* the next new one 2, and so on.  A request may name any code seen so
\* far or one new code.
CodeOK(c) == c <= used + 1
Seen(c) == IF c > used THEN c ELSE used

\* The handler of s has ended: its locals are gone and its channel, with
\* the frames that went over it, no longer exists.
End(f, s, v) == [f EXCEPT ![s] = v]

\* ------------------------------------------------------------------
\* websocket_endpoint, line 115, up to `await websocket.accept()` (line
\* 50): a client opens a channel for room code c.  Handles are taken in
\* order.
\* ------------------------------------------------------------------
Open(s, c) ==
    /\ pc[s] = "idle"
    /\ UNCHANGED urlvars
    /\ \A t \in Sessions : t < s => pc[t] # "idle"
    /\ CodeOK(c)
    /\ used' = Seen(c)
    /\ pc' = [pc EXCEPT ![s] = "accepting"]
    /\ code' = [code EXCEPT ![s] = c]
    /\ UNCHANGED <<rooms, chat_history, chan, inbox, it, nmsgs, leaves>>

\* connect, lines 52-62, after accept() returned: up to the
\* `await send_text("Room is full")` of line 57 when the room is full, up
\* to the `await receive_text()` of line 121 when the join is accepted
Connect(s) ==
    /\ pc[s] = "accepting"
    /\ UNCHANGED urlvars
    /\ rooms' = connect_rooms(rooms, s, code[s])
    /\ chat_history' = connect_history(rooms, chat_history, code[s])
    /\ IF connect_full(rooms, code[s])
       THEN /\ inbox' = [inbox EXCEPT ![s] = Append(@, RoomFullNotice)]
            /\ pc' = [pc EXCEPT ![s] = "full_notice"]
       ELSE /\ inbox' = inbox
            /\ pc' = [pc EXCEPT ![s] = "receiving"]
    /\ UNCHANGED <<code, chan, it, nmsgs, leaves, used>>

\* connect, lines 58-59: send_text returned; `await websocket.close()`,
\* return False; websocket_endpoint, lines 116-117, returns
Reject(s) ==
    /\ pc[s] = "full_notice"
    /\ UNCHANGED urlvars
    /\ pc' = [pc EXCEPT ![s] = "rejected"]
    /\ chan' = [chan EXCEPT ![s] = "closed"]
    /\ code' = End(code, s, 0)
    /\ inbox' = End(inbox, s, <<>>)
    /\ UNCHANGED <<rooms, chat_history, it, nmsgs, leaves, used>>

\* the client (or the network) closes the channel of an accepted session
ClientClose(s) ==
    /\ pc[s] \in {"receiving", "broadcasting"}
    /\ UNCHANGED urlvars
    /\ chan[s] = "open"
    /\ chan' = [chan EXCEPT ![s] = "closed"]
    /\ UNCHANGED <<rooms, chat_history, pc, code, inbox, it, nmsgs, leaves, used>>

\* websocket_endpoint, lines 129-130: receive_text raised
\* WebSocketDisconnect, or send_text did inside broadcast; h is the value
\* of chat_history when the exception is raised
Leave(s, h) ==
    /\ rooms' = disconnect_rooms(rooms, s, code[s])
    /\ chat_history' = disconnect_history(rooms, h, s, code[s])
    /\ pc' = [pc EXCEPT ![s] = "done"]
    /\ chan' = [chan EXCEPT ![s] = "closed"]
    /\ leaves' = [leaves EXCEPT ![s] = @ + 1]
    /\ it' = IF disconnect_empties(rooms, s, code[s])
             THEN [Detach(it, code[s], <<>>, pc) EXCEPT ![s] = NoIter]
             ELSE [it EXCEPT ![s] = NoIter]
    /\ code' = End(code, s, 0)
    /\ inbox' = End(inbox, s, <<>>)

\* an exception other than WebSocketDisconnect leaves websocket_endpoint:
\* the handler ends without calling manager.disconnect
Crash(s, h) ==
    /\ pc' = [pc EXCEPT ![s] = "crashed"]
    /\ chan' = [chan EXCEPT ![s] = "closed"]
    /\ it' = [it EXCEPT ![s] = NoIter]
    /\ chat_history' = h
    /\ code' = End(code, s, 0)
    /\ inbox' = End(inbox, s, <<>>)
    /\ UNCHANGED <<rooms, leaves>>

\* broadcast, line 79: `await connection.send_text(message)` returned
\* without raising; the handler is suspended in it
Suspend(s, h, susp) ==
    /\ pc' = [pc EXCEPT ![s] = "broadcasting"]
    /\ it' = [it EXCEPT ![s] = susp]
    /\ chat_history' = h
    /\ UNCHANGED <<rooms, chan, leaves, code>>

\* broadcast, lines 77-79: run the loop over lst from position i until the
\* next `await connection.send_text(message)` or the end of the loop
RunLoop(s, msg, lst, i, live, h, at) ==
    LET j == NextIdx(lst, i, s)
        susp == [idx |-> j + 1, live |-> live,
                 snap |-> IF live THEN <<>> ELSE lst, msg |-> msg,
                 at |-> at]
    IN IF j = 0
       THEN /\ pc' = [pc EXCEPT ![s] = "receiving"]
            /\ it' = [it EXCEPT ![s] = NoIter]
            /\ chat_history' = h
            /\ UNCHANGED <<rooms, chan, inbox, leaves, code>>
       ELSE IF chan[lst[j]] = "open"
            THEN /\ inbox' = [inbox EXCEPT ![lst[j]] = Append(@, msg)]
                 /\ Suspend(s, h, susp)
            ELSE \E o \in SendFailures :
                   \/ /\ o = "lost"
                      /\ inbox' = inbox
                      /\ Suspend(s, h, susp)
                   \/ /\ o = "disconnect"
                      /\ Leave(s, h)
                   \/ /\ o = "error"
                      /\ Crash(s, h)

\* websocket_endpoint, lines 121-127: receive_text returned data
Receive(s) ==
    /\ pc[s] = "receiving"
    /\ UNCHANGED urlvars
    /\ chan[s] = "open"
    /\ nmsgs < MaxMsgs
    /\ nmsgs' = nmsgs + 1
    /\ UNCHANGED used
    /\ LET data == <<s, nmsgs + 1>>
       IN IF code[s] \notin DOMAIN chat_history
          THEN \* line 124 raises KeyError
               Crash(s, chat_history)
          ELSE LET h == record(chat_history, code[s], data)
               IN IF code[s] \in DOMAIN rooms
                  THEN RunLoop(s, data, rooms[code[s]], 1, TRUE, h,
                               rooms[code[s]])
                  ELSE /\ chat_history' = h
                       /\ UNCHANGED <<rooms, pc, chan, inbox, it, leaves, code>>

\* broadcast, line 79: send_text returned, the loop goes on
Resume(s) ==
    /\ pc[s] = "broadcasting"
    /\ UNCHANGED urlvars
    /\ UNCHANGED <<nmsgs, used>>
    /\ RunLoop(s, it[s].msg,
               IF it[s].live THEN rooms[code[s]] ELSE it[s].snap,
               it[s].idx, it[s].live, chat_history, it[s].at)

\* websocket_endpoint, lines 121 and 129-130: receive_text raises
\* WebSocketDisconnect
RecvDisconnect(s) ==
    /\ pc[s] = "receiving"
    /\ UNCHANGED urlvars
    /\ chan[s] = "closed"
    /\ Leave(s, chat_history)
    /\ UNCHANGED <<nmsgs, used>>

\* create_room, lines 89-94; room_code is the value of str(uuid4())[:8]
create_room(room_code) ==
    /\ CodeOK(room_code)
    /\ UNCHANGED urlvars
    /\ used' = Seen(room_code)
    /\ rooms' = DictSet(rooms, room_code, <<>>)
    /\ chat_history' = DictSet(chat_history, room_code, <<>>)
    /\ it' = IF room_code \in DOMAIN rooms
             THEN Detach(it, room_code, rooms[room_code], pc)
             ELSE it
    /\ UNCHANGED <<pc, code, chan, inbox, nmsgs, leaves>>

\* a get_chat_history request that writes: a room made on lookup
GetChatHistory_create(room_code) ==
    /\ CodeOK(room_code)
    /\ UNCHANGED urlvars
    /\ chat_history' = IF room_code \in DOMAIN chat_history
                       THEN chat_history
                       ELSE DictSet(chat_history, room_code, <<>>)
    /\ UNCHANGED <<rooms, pc, code, chan, inbox, it, nmsgs, leaves, used>>

\* GET /rooms/{room_code}/history, lines 102-106: the handler reads
\* chat_history and assigns nothing; what it returns is
\* get_chat_history(room_code)
GetChatHistory(room_code) ==
    /\ CodeOK(room_code)
    /\ UNCHANGED urlvars
    /\ UNCHANGED <<rooms, chat_history, pc, code, chan, inbox, it, nmsgs,
                   leaves, used>>

Next ==
    \/ \E s \in Sessions, c \in Codes : Open(s, c)
    \/ \E s \in Sessions : Connect(s)
    \/ \E s \in Sessions : Reject(s)
    \/ \E s \in Sessions : ClientClose(s)
    \/ \E s \in Sessions : Receive(s)
    \/ \E s \in Sessions : Resume(s)
    \/ \E s \in Sessions : RecvDisconnect(s)
    \/ \E c \in Codes : create_room(c)
    \/ \E c \in Codes : GetChatHistory(c)

Spec == Init /\ [][Next]_vars

\* ------------------------------------------------------------------
\* 07.url-shortner: POST /urls (main.py, lines 66-78).  create_url is a
\* plain `def`, so requests run in worker threads, each with its own
\* Session and transaction on the PostgreSQL database (database.py).  A
\* step of a request is one round trip to the database.  A query sees
\* the committed rows.  short_code has a unique index (models.py, line
\* 18): an INSERT of a code that another open transaction has inserted
\* waits for that transaction, an INSERT of a committed code fails.
\* ------------------------------------------------------------------
\* a committed row has this short_code
Stored(c) == \E i \in 1..Len(urls) : urls[i].short_code = c

\* another request's INSERT of this short_code is not yet committed
Pending(r, c) ==
    \E q \in Requests \ {r} : req_pc[q] = "inserted" /\ req_code[q] = c

\* lines 69-72: code = generate_short_code(), then the existence query of
\* the while condition; the request stays in the loop while the query
\* finds a row
Query(r, c) ==
    /\ req_pc[r] = "query"
    /\ req_code' = [req_code EXCEPT ![r] = c]
    /\ req_pc' = [req_pc EXCEPT ![r] = IF Stored(c) THEN "query" ELSE "commit"]
    /\ UNCHANGED urls
    /\ UNCHANGED chatvars

\* lines 74-76: db.add(db_url); db.commit() sends the INSERT.  The unique
\* index rejects a committed duplicate: IntegrityError leaves create_url,
\* the request ends with status 500 and stores nothing.
Insert(r) ==
    /\ req_pc[r] = "commit"
    /\ ~Pending(r, req_code[r])
    /\ req_pc' = [req_pc EXCEPT ![r] =
                    IF Stored(req_code[r]) THEN "error" ELSE "inserted"]
    /\ UNCHANGED <<urls, req_code>>
    /\ UNCHANGED chatvars

\* lines 76-78: the transaction commits; refresh and return the row
Commit(r) ==
    /\ req_pc[r] = "inserted"
    /\ urls' = Append(urls, [original_url |-> r, short_code |-> req_code[r]])
    /\ req_pc' = [req_pc EXCEPT ![r] = "returned"]
    /\ UNCHANGED req_code
    /\ UNCHANGED chatvars

NextUrl ==
    \/ \E r \in Requests, c \in ShortCodes : Query(r, c)
    \/ \E r \in Requests : Insert(r)
    \/ \E r \in Requests : Commit(r)

SpecUrl == Init /\ [][NextUrl]_vars

TypeOK ==
    /\ DOMAIN rooms \subseteq Codes
    /\ DOMAIN chat_history \subseteq Codes
    /\ \A c \in DOMAIN rooms : Range(rooms[c]) \subseteq Sessions
    /\ \A s \in Sessions : pc[s] \in {"idle", "accepting", "full_notice",
            "rejected", "receiving", "broadcasting", "done", "crashed"}

\* the handler of s is in its receive loop (lines 119-127)
InLoop(s) == pc[s] \in {"receiving", "broadcasting"}

\* s is in the members list of some room
IsMember(s) == \E c \in DOMAIN rooms : Contains(rooms[c], s)

\* ------------------------------------------------------------------
\* C1: in every reachable state every room of the registry has at most
\* two members.
\* ------------------------------------------------------------------
C1_AtMostTwo == \A c \in DOMAIN rooms : Len(rooms[c]) <= 2

\* a full room after an earlier member has left and a later one joined
C1_Witness ==
    \E c \in DOMAIN rooms :
        /\ Len(rooms[c]) = 2
        /\ \E s \in Sessions : pc[s] = "done"

\* ------------------------------------------------------------------
\* C2: a join on a room that holds two members is rejected, whatever
\* happened before it.
\* ------------------------------------------------------------------
C2_FullRejects ==
    [][\A s \in Sessions, c \in Codes :
        (/\ Connect(s)
         /\ code[s] = c
         /\ c \in DOMAIN rooms
         /\ Len(rooms[c]) = 2)
            => /\ pc'[s] = "full_notice"
               /\ inbox'[s] = <<RoomFullNotice>>]_vars

\* a session was rejected and the room it asked for is still full
C2_Witness ==
    /\ \E s \in Sessions : pc[s] = "full_notice"
    /\ \E c \in DOMAIN rooms : Len(rooms[c]) = 2

\* ------------------------------------------------------------------
\* C3: a rejected join leaves the registry and the histories as they
\* were; a rejected handle is in no members list, its handler never
\* enters the receive loop and never calls disconnect.
\* ------------------------------------------------------------------
C3_RejectFrame ==
    [][/\ \A s \in Sessions :
            (Connect(s) /\ pc'[s] = "full_notice")
                => rooms' = rooms /\ chat_history' = chat_history
       /\ \A s \in Sessions :
            pc'[s] \in {"full_notice", "rejected"}
                => /\ \A c \in DOMAIN rooms' : ~Contains(rooms'[c], s)
                   /\ leaves'[s] = 0
       /\ \A s \in Sessions :
            /\ pc[s] = "full_notice" => pc'[s] \in {"full_notice", "rejected"}
            /\ pc[s] = "rejected" => pc'[s] = "rejected"]_vars

\* a rejected session beside a full room that has a recorded message
C3_Witness ==
    \E s \in Sessions, c \in DOMAIN rooms :
        /\ pc[s] = "rejected"
        /\ Len(rooms[c]) = 2
        /\ Len(chat_history[c]) > 0

\* ------------------------------------------------------------------
\* C4: disconnect is idempotent on every reachable registry: a second
\* call with the same handle and code changes nothing more, and a call
\* for a handle that is no member, or a code that is no room, changes
\* nothing.
\* ------------------------------------------------------------------
C4_LeaveIdempotent ==
    \A ws \in Sessions, c \in Codes :
        LET r1 == disconnect_rooms(rooms, ws, c)
            h1 == disconnect_history(rooms, chat_history, ws, c)
            r2 == disconnect_rooms(r1, ws, c)
            h2 == disconnect_history(r1, h1, ws, c)
        IN /\ r2 = r1
           /\ h2 = h1
           /\ ~disconnect_member(rooms, ws, c)
                => r1 = rooms /\ h1 = chat_history

\* a registry on which disconnect has work to do in both ways: one handle
\* whose leave keeps its room, another whose leave removes its room
C4_Witness ==
    /\ \E ws \in Sessions, c \in DOMAIN rooms :
          /\ disconnect_member(rooms, ws, c)
          /\ ~disconnect_empties(rooms, ws, c)
    /\ \E ws \in Sessions, c \in DOMAIN rooms :
          disconnect_empties(rooms, ws, c)

\* ------------------------------------------------------------------
\* C5: the step in which the last member of a room leaves removes the
\* code from the registry and from the history map: get_chat_history is
\* not-found and list_rooms lacks the code right after it; a join on a
\* code that is not in the registry is accepted into a room with an
\* empty history.
\* ------------------------------------------------------------------
C5_LastLeaveRemoves ==
    [][/\ \A s \in Sessions, c \in Codes :
            (/\ leaves'[s] = leaves[s] + 1
             /\ code[s] = c
             /\ c \in DOMAIN rooms
             /\ rooms[c] = <<s>>)
                => /\ c \notin list_rooms'
                   /\ get_chat_history(c)' = NotFound
       /\ \A s \in Sessions, c \in Codes :
            (Connect(s) /\ code[s] = c /\ c \notin DOMAIN rooms)
                => /\ pc'[s] = "receiving"
                   /\ rooms'[c] = <<s>>
                   /\ get_chat_history(c)' = <<>>]_vars

\* the only code ever seen holds a room with an empty history although a
\* message was recorded under it: an earlier room of that code is gone
C5_Witness ==
    /\ used = 1
    /\ nmsgs > 0
    /\ \E s, t \in Sessions :
          /\ pc[s] = "done"
          /\ 1 \in DOMAIN rooms
          /\ rooms[1] = <<t>>
          /\ chat_history[1] = <<>>

\* ------------------------------------------------------------------
\* C6 (as claimed): no room of the registry has an empty members list.
\* ------------------------------------------------------------------
C6_NoEmptyRoom == \A c \in DOMAIN rooms : Len(rooms[c]) >= 1

\* C6 (amended): connect and disconnect never leave a room with an empty
\* members list in the registry; only a create_room step does.
C6_EmptyOnlyByCreate ==
    [][\A c \in Codes :
        (c \in DOMAIN rooms' /\ rooms'[c] = <<>>)
            => \/ c \in DOMAIN rooms /\ rooms[c] = <<>>
               \/ create_room(c)]_vars

\* the last member of the only room has left and the registry is empty
C6_Witness ==
    /\ used >= 1
    /\ rooms = << >>
    /\ \E s \in Sessions : pc[s] = "done" /\ leaves[s] = 1

\* ------------------------------------------------------------------
\* C7: rooms and chat_history have the same keys in every reachable
\* state.
\* ------------------------------------------------------------------
C7_SameKeys == DOMAIN rooms = DOMAIN chat_history

\* one room was created by a join and is still there, another code was
\* seen and its room has been removed
C7_Witness ==
    /\ used = 2
    /\ Cardinality(DOMAIN rooms) = 1
    /\ \E s \in Sessions : pc[s] = "done"
    /\ \E c \in DOMAIN rooms : Len(rooms[c]) >= 1

\* ------------------------------------------------------------------
\* C8: when the handler of a member X receives a message, the step
\* appends it to the room's history and hands it to every other member
\* whose channel is open; no session is ever sent a message of its own.
\* ------------------------------------------------------------------
C8_RecordAndDeliver ==
    [][/\ \A s \in Sessions, c \in Codes :
            (/\ Receive(s)
             /\ code[s] = c
             /\ disconnect_member(rooms, s, c))
                => /\ c \in DOMAIN chat_history'
                   /\ chat_history'[c]
                        = Append(chat_history[c], <<s, nmsgs + 1>>)
                   /\ \A t \in Range(rooms[c]) \ {s} :
                        chan[t] = "open"
                            => inbox'[t] = Append(inbox[t], <<s, nmsgs + 1>>)
       /\ \A s \in Sessions :
            \A i \in 1..Len(inbox'[s]) : inbox'[s][i][1] # s]_vars

\* members X, Y; Y's last frame is the last message of the history, and X
\* sent it
C8_Witness ==
    \E c \in DOMAIN rooms, x, y \in Sessions :
        /\ rooms[c] = <<x, y>>
        /\ Len(chat_history[c]) > 0
        /\ Len(inbox[y]) > 0
        /\ inbox[y][Len(inbox[y])] = chat_history[c][Len(chat_history[c])]
        /\ inbox[y][Len(inbox[y])][1] = x

\* ------------------------------------------------------------------
\* C9: message order.  A session that received two messages of one
\* room's history received them in the order the history records.
\* ------------------------------------------------------------------
C9_DeliveredInOrder ==
    \A c \in DOMAIN chat_history, t \in Sessions :
        \A i, j \in 1..Len(inbox[t]) :
            (/\ i < j
             /\ Contains(chat_history[c], inbox[t][i])
             /\ Contains(chat_history[c], inbox[t][j]))
                => IndexOf(chat_history[c], inbox[t][i])
                       < IndexOf(chat_history[c], inbox[t][j])

\* ------------------------------------------------------------------
\* C10: every message that a current member of a room has been sent is
\* in the room's history.
\* ------------------------------------------------------------------
C10_DeliveredIsRecorded ==
    \A c \in DOMAIN rooms :
        \A t \in Range(rooms[c]) :
            \A i \in 1..Len(inbox[t]) :
                /\ c \in DOMAIN chat_history
                /\ Contains(chat_history[c], inbox[t][i])

\* a member holds two delivered messages
C10_Witness ==
    \E c \in DOMAIN rooms :
        \E t \in Range(rooms[c]) : Len(inbox[t]) = 2 /\ pc[t] = "receiving"

\* ------------------------------------------------------------------
\* C11: a session whose handler has ended after an accepted join has
\* called disconnect exactly once, and its handle is in no members list.
\* ------------------------------------------------------------------
C11_LeaveOnEveryExit ==
    \A s \in Sessions :
        pc[s] \in {"done", "crashed"}
            => leaves[s] = 1 /\ ~IsMember(s)

\* ------------------------------------------------------------------
\* C12: a step of the broadcast of a member X, whatever happens to the
\* sends in it, leaves X in the members of its room and the handler of X
\* in its receive loop.
\* ------------------------------------------------------------------
C12_SenderUnaffected ==
    [][\A s \in Sessions, c \in Codes :
        (/\ Receive(s) \/ Resume(s)
         /\ code[s] = c
         /\ disconnect_member(rooms, s, c))
            => /\ pc'[s] \in {"receiving", "broadcasting"}
               /\ disconnect_member(rooms', s, c)]_vars

\* ------------------------------------------------------------------
\* C13: create_room never returns the code of a room that is in the
\* registry, and it leaves the members and the history of every room
\* that was there as they were.
\* ------------------------------------------------------------------
C13_CreateKeepsRooms ==
    [][\A c \in Codes :
        create_room(c)
            => /\ c \notin DOMAIN rooms
               /\ \A d \in DOMAIN rooms :
                    /\ d \in DOMAIN rooms' /\ rooms'[d] = rooms[d]
                    /\ d \in DOMAIN chat_history'
                    /\ chat_history'[d] = chat_history[d]]_vars

\* ------------------------------------------------------------------
\* C14: a get_chat_history request changes neither rooms nor
\* chat_history; in every state it answers not-found for a code that is
\* not in the registry and the room's current history for a code that is.
\* ------------------------------------------------------------------
C14_HistoryReadOnly ==
    [][\A c \in Codes :
        /\ GetChatHistory(c)
             => rooms' = rooms /\ chat_history' = chat_history
        /\ c \notin DOMAIN rooms' => get_chat_history(c)' = NotFound
        /\ c \in DOMAIN rooms' => get_chat_history(c)' = chat_history'[c]]_vars

\* one room with a recorded message is in the registry, and another code
\* that was in use is not
C14_Witness ==
    \E c, d \in Codes :
        /\ c \in DOMAIN rooms
        /\ Len(get_chat_history(c)) > 0
        /\ d <= used
        /\ d \notin DOMAIN rooms
        /\ get_chat_history(d) = NotFound

\* ------------------------------------------------------------------
\* C15: a join on a code whose room has fewer than two members, or has
\* no room at all, is accepted: the handle becomes the last element of
\* the room's members and the handler enters the receive loop; a room
\* made by the join starts with an empty history.
\* ------------------------------------------------------------------
C15_JoinAccepted ==
    [][\A s \in Sessions, c \in Codes :
        (/\ Connect(s)
         /\ code[s] = c
         /\ c \in DOMAIN rooms => Len(rooms[c]) < 2)
            => /\ pc'[s] = "receiving"
               /\ c \in DOMAIN rooms'
               /\ rooms'[c]
                    = Append(IF c \in DOMAIN rooms THEN rooms[c] ELSE <<>>, s)
               /\ c \notin DOMAIN rooms => get_chat_history(c)' = <<>>]_vars

\* FULL -> ONE_MEMBER -> FULL: handles 1 and 2 filled the only room,
\* 2 has left and 3 has taken the freed slot
C15_Witness ==
    /\ used = 1
    /\ 1 \in DOMAIN rooms
    /\ rooms[1] = <<1, 3>>
    /\ pc[2] = "done"
    /\ pc[3] = "receiving"

\* ------------------------------------------------------------------
\* C16: a message received for a code that is no longer a key of
\* chat_history is dropped silently: the handler stays in its receive
\* loop, rooms and chat_history are unchanged and nothing is delivered.
\* ------------------------------------------------------------------
C16_DroppedSilently ==
    [][\A s \in Sessions :
        (Receive(s) /\ code[s] \notin DOMAIN chat_history)
            => /\ pc'[s] = "receiving"
               /\ rooms' = rooms
               /\ chat_history' = chat_history
               /\ inbox' = inbox]_vars

\* ------------------------------------------------------------------
\* C17: a message is sent only to handles that were members of the room
\* when the message was appended to the history, and to none of them
\* twice.
\* ------------------------------------------------------------------
C17_OnlyMembersAtAppend ==
    [][\A s, t \in Sessions :
        /\ (Resume(s) /\ inbox'[t] = Append(inbox[t], it[s].msg))
              => Contains(it[s].at, t)
        /\ \A i, j \in 1..Len(inbox'[t]) :
              inbox'[t][i] = inbox'[t][j] => i = j]_vars

\* ------------------------------------------------------------------
\* C18: no two rows of table urls share a short_code, and every
\* create_url request that has ended has stored its row; no request ends
\* in an error.
\* ------------------------------------------------------------------
C18_UniqueAndStored ==
    /\ \A i, j \in 1..Len(urls) :
          urls[i].short_code = urls[j].short_code => i = j
    /\ \A r \in Requests :
          /\ req_pc[r] # "error"
          /\ req_pc[r] = "returned"
                => \E i \in 1..Len(urls) :
                      /\ urls[i].original_url = r
                      /\ urls[i].short_code = req_code[r]
====
